---- MODULE Spec2Model ----
(***************************************************************************)
(* Model of news_summarizer.py: clean_text, simple_tokenize and            *)
(* summarize_text.  A Python str is a sequence of one-character strings;   *)
(* a dict is a sequence of [key, val] records in insertion order.          *)
(***************************************************************************)
EXTENDS Integers, Sequences, FiniteSets, TLC

\* ------------------------------------------------------------------ bounds
MaxLen == 5
MaxN == 2

\* ------------------------------------------------------- character classes
Alphabet == {"a", "b", " ", ".", ","}

UpperLetters == <<"A","B","C","D","E","F","G","H","I","J","K","L","M",
                  "N","O","P","Q","R","S","T","U","V","W","X","Y","Z">>
LowerLetters == <<"a","b","c","d","e","f","g","h","i","j","k","l","m",
                  "n","o","p","q","r","s","t","u","v","w","x","y","z">>
Digits == {"0","1","2","3","4","5","6","7","8","9"}
Terminators == {".", "!", "?"}

Range(s) == {s[i] : i \in DOMAIN s}

\* str.isspace() for one character; the class \s of the re module
IsSpace(c) == c \in {" ", "\t", "\n", "\r"}

\* the alphanumeric test on every character; the mutated form accepts
\* sentence punctuation as well
IsAlnumCharLoose(c) == c \in Range(UpperLetters) \cup Range(LowerLetters) \cup Digits \cup Terminators
IsAlnumChar(c) == c \in Range(UpperLetters) \cup Range(LowerLetters) \cup Digits

\* the class \w of the re module: alphanumeric or underscore
IsWordChar(c) == IsAlnumChar(c) \/ c = "_"

\* str.isalnum(): non-empty and every character alphanumeric
isalnum(w) == w # <<>> /\ \A i \in DOMAIN w : IsAlnumChar(w[i])

lower_char(c) ==
  IF \E i \in DOMAIN UpperLetters : UpperLetters[i] = c
  THEN LowerLetters[CHOOSE i \in DOMAIN UpperLetters : UpperLetters[i] = c]
  ELSE c

\* str.lower()
lower(s) == [i \in DOMAIN s |-> lower_char(s[i])]

\* ------------------------------------------------------------ str helpers
RECURSIVE SplitAcc(_, _, _, _)
SplitAcc(s, i, cur, acc) ==
  IF i > Len(s)
  THEN IF cur = <<>> THEN acc ELSE Append(acc, cur)
  ELSE IF IsSpace(s[i])
       THEN SplitAcc(s, i + 1, <<>>, IF cur = <<>> THEN acc ELSE Append(acc, cur))
       ELSE SplitAcc(s, i + 1, Append(cur, s[i]), acc)

\* str.split() with no argument: the maximal runs of non-whitespace
split(s) == SplitAcc(s, 1, <<>>, <<>>)

RECURSIVE join(_)
\* ' '.join(parts)
join(parts) ==
  IF parts = <<>> THEN <<>>
  ELSE IF Len(parts) = 1 THEN parts[1]
  ELSE parts[1] \o <<" ">> \o join(Tail(parts))

RECURSIVE LStrip(_)
LStrip(s) == IF s # <<>> /\ IsSpace(s[1]) THEN LStrip(Tail(s)) ELSE s

RECURSIVE RStrip(_)
RStrip(s) ==
  IF s # <<>> /\ IsSpace(s[Len(s)]) THEN RStrip(SubSeq(s, 1, Len(s) - 1)) ELSE s

\* str.strip()
strip(s) == RStrip(LStrip(s))

\* parts[:k]
Take(parts, k) == SubSeq(parts, 1, IF k < Len(parts) THEN k ELSE Len(parts))

\* --------------------------------------------------------------- clean_text
KeptChar(c) == IsWordChar(c) \/ IsSpace(c) \/ c \in Terminators

\* re.sub(r'[^\w\s.!?]', '', text)
RemoveNoise(s) == SelectSeq(s, KeptChar)

clean_text(t) == RemoveNoise(join(split(t)))

\* ---------------------------------------------------------- simple_tokenize
RECURSIVE SkipSpaces(_, _)
SkipSpaces(s, i) == IF i <= Len(s) /\ IsSpace(s[i]) THEN SkipSpaces(s, i + 1) ELSE i

RECURSIVE ReSplitAcc(_, _, _, _)
ReSplitAcc(s, i, cur, acc) ==
  IF i > Len(s) THEN Append(acc, cur)
  ELSE IF i > 1 /\ s[i - 1] \in Terminators /\ IsSpace(s[i])
       THEN ReSplitAcc(s, SkipSpaces(s, i), <<>>, Append(acc, cur))
       ELSE ReSplitAcc(s, i + 1, Append(cur, s[i]), acc)

\* re.split(r'(?<=[.!?])\s+', text)
re_split(s) == ReSplitAcc(s, 1, <<>>, <<>>)

NonEmptyStripped(p) == strip(p) # <<>>

simple_tokenize(t) ==
  LET pieces == re_split(clean_text(t))
      kept == SelectSeq(pieces, NonEmptyStripped)
  IN [i \in DOMAIN kept |-> strip(kept[i])]

\* ------------------------------------------------------------------- dicts
DictHas(d, k) == \E i \in DOMAIN d : d[i].key = k

DictGet(d, k, default) ==
  IF DictHas(d, k) THEN d[CHOOSE i \in DOMAIN d : d[i].key = k].val ELSE default

\* d[k] = v keeping every earlier entry: the mutated form of the store
DictSetNoMerge(d, k, v) == Append(d, [key |-> k, val |-> v])
\* d[k] = v: an existing key keeps its position, a new key goes last
DictSet(d, k, v) ==
  IF DictHas(d, k)
  THEN [i \in DOMAIN d |-> IF d[i].key = k THEN [key |-> k, val |-> v] ELSE d[i]]
  ELSE Append(d, [key |-> k, val |-> v])

DictKeys(d) == {d[i].key : i \in DOMAIN d}

\* ----------------------------------------------------------- the stopwords
\* The entries of the English stopword list that the checked texts can form
StopWords == { <<"a">>, <<"t","h","e">>, <<"a","t">> }

\* ----------------------------------------------------------- summarize_text
WordQualifiesLoose(w, stop_words) ==
  w # <<>> /\ (\A i \in DOMAIN w : IsAlnumCharLoose(w[i])) /\ w \notin stop_words
\* if word.isalnum() and word not in stop_words
WordQualifies(w, stop_words) == isalnum(w) /\ w \notin stop_words

RECURSIVE WordFreqLoop(_, _, _, _)
WordFreqLoop(words, i, stop_words, wf) ==
  IF i > Len(words) THEN wf
  ELSE WordFreqLoop(words, i + 1, stop_words,
         IF WordQualifies(words[i], stop_words)
         THEN DictSet(wf, words[i], DictGet(wf, words[i], 0) + 1)
         ELSE wf)

\* the loop that fills word_freq
WordFreq(t, stop_words) == WordFreqLoop(split(lower(t)), 1, stop_words, <<>>)

\* the mutated inner statement: the sentence gets an entry for every word
ScoreWordAlways(scores, sent, word, wf) ==
  DictSet(scores, sent, DictGet(scores, sent, 0) + DictGet(wf, word, 0))
\* if word in word_freq: sent_scores[sent] = sent_scores.get(sent, 0) + word_freq[word]
ScoreWord(scores, sent, word, wf) ==
  IF DictHas(wf, word)
  THEN DictSet(scores, sent, DictGet(scores, sent, 0) + DictGet(wf, word, 0))
  ELSE scores

RECURSIVE ScoreWordsLoop(_, _, _, _, _)
ScoreWordsLoop(scores, sent, words, i, wf) ==
  IF i > Len(words) THEN scores
  ELSE ScoreWordsLoop(ScoreWord(scores, sent, words[i], wf), sent, words, i + 1, wf)

RECURSIVE ScoreSentencesLoop(_, _, _, _)
ScoreSentencesLoop(scores, sents, i, wf) ==
  IF i > Len(sents) THEN scores
  ELSE ScoreSentencesLoop(ScoreWordsLoop(scores, sents[i], split(lower(sents[i])), 1, wf),
                          sents, i + 1, wf)

\* the loop that fills sent_scores
SentScores(sents, wf) == ScoreSentencesLoop(<<>>, sents, 1, wf)

\* insert e in front of every entry whose value is at least as large: not stable
InsertUnstable(sorted, e) ==
  LET k == Cardinality({i \in DOMAIN sorted : sorted[i].val > e.val})
  IN SubSeq(sorted, 1, k) \o <<e>> \o SubSeq(sorted, k + 1, Len(sorted))
\* insert e behind every entry whose value is at least as large
InsertDescending(sorted, e) ==
  LET k == Cardinality({i \in DOMAIN sorted : sorted[i].val >= e.val})
  IN SubSeq(sorted, 1, k) \o <<e>> \o SubSeq(sorted, k + 1, Len(sorted))

RECURSIVE SortLoop(_, _, _)
SortLoop(items, i, sorted) ==
  IF i > Len(items) THEN sorted
  ELSE SortLoop(items, i + 1, InsertDescending(sorted, items[i]))

\* sorted(d.items(), key=lambda x: x[1], reverse=True): a stable sort
SortedByScore(items) == SortLoop(items, 1, <<>>)

\* the sentences of sorted(...)[:k]
TopSentences(scores, k) ==
  LET top == Take(SortedByScore(scores), k)
  IN [i \in DOMAIN top |-> top[i].key]

\* the mutated shortcut: the sentences joined again
ShortcutJoined(t, sents) == join(sents)
\* return text
ShortcutResult(t, sents) == t

\* -------------------------------------------------------------- the inputs
\* "The cat sat. The cat ran fast. Dogs bark loudly at night."
CatText == <<"T","h","e"," ","c","a","t"," ","s","a","t","."," ","T","h","e"," ","c","a","t"," ","r","a","n"," ","f","a","s","t","."," ","D","o","g","s"," ","b","a","r","k"," ","l","o","u","d","l","y"," ","a","t"," ","n","i","g","h","t",".">>
\* "b . b b . b": the second sentence scores highest
OrderText == <<"b"," ","."," ","b"," ","b"," ","."," ","b">>
\* "b . b . b .": one sentence text three times
DupText == <<"b"," ","."," ","b"," ","."," ","b"," ",".">>
\* "b . b . b b": a repeated sentence ties with a later one
DupTieText == <<"b"," ","."," ","b"," ","."," ","b"," ","b">>
\* "b , . b": a removed character between two spaces
CommaText == <<"b"," ",","," ","."," ","b">>
\* "B\tb .\n a. b": upper case, tab and newline
MixedText == <<"B","\t","b"," ",".","\n"," ","a","."," ","b">>

LongTexts == {CatText, OrderText, DupText, DupTieText, CommaText, MixedText}

ShortTexts == UNION {[1..k -> Alphabet] : k \in 0..MaxLen}

Texts == ShortTexts \cup LongTexts

\* ------------------------------------------------------------------- state
VARIABLES
  input,                \* the text argument as the caller passed it
  n_sentences,          \* the n_sentences argument
  stopwords_available,  \* whether the stopword corpus can be loaded
  pc,                   \* the position in summarize_text
  text,                 \* the local variable text (reassigned at line 46)
  sentences,            \* the local variable sentences
  word_freq,            \* the dict word_freq
  sent_scores,          \* the dict sent_scores
  summary_sents,        \* the sentences of summary_sents
  result                \* the returned string, defined when pc = "done"

vars == <<input, n_sentences, stopwords_available, pc, text, sentences,
          word_freq, sent_scores, summary_sents, result>>

args == <<input, n_sentences, stopwords_available>>

Init ==
  /\ input \in Texts
  /\ n_sentences \in 1..MaxN
  /\ stopwords_available \in BOOLEAN
  /\ pc = "clean"
  /\ text = input
  /\ sentences = <<>>
  /\ word_freq = <<>>
  /\ sent_scores = <<>>
  /\ summary_sents = <<>>
  /\ result = <<>>

\* line 46: text = clean_text(text)
Clean ==
  /\ pc = "clean"
  /\ text' = clean_text(text)
  /\ pc' = "tokenize"
  /\ UNCHANGED <<args, sentences, word_freq, sent_scores, summary_sents, result>>

\* line 47: sentences = simple_tokenize(text)
Tokenize ==
  /\ pc = "tokenize"
  /\ sentences' = simple_tokenize(text)
  /\ pc' = "check"
  /\ UNCHANGED <<args, text, word_freq, sent_scores, summary_sents, result>>

\* lines 49-50: if len(sentences) <= n_sentences: return text
Shortcut ==
  /\ pc = "check"
  /\ Len(sentences) <= n_sentences
  /\ result' = ShortcutResult(text, sentences)
  /\ pc' = "done"
  /\ UNCHANGED <<args, text, sentences, word_freq, sent_scores, summary_sents>>

\* line 53: stopwords.words('english') returns the list
LoadStopwords ==
  /\ pc = "check"
  /\ Len(sentences) > n_sentences
  /\ stopwords_available
  /\ pc' = "freq"
  /\ UNCHANGED <<args, text, sentences, word_freq, sent_scores, summary_sents, result>>

\* line 53: stopwords.words('english') raises LookupError
LoadStopwordsRaises ==
  /\ pc = "check"
  /\ Len(sentences) > n_sentences
  /\ ~stopwords_available
  /\ pc' = "except"
  /\ UNCHANGED <<args, text, sentences, word_freq, sent_scores, summary_sents, result>>

\* lines 54-59
CountWords ==
  /\ pc = "freq"
  /\ word_freq' = WordFreq(text, StopWords)
  /\ pc' = "score"
  /\ UNCHANGED <<args, text, sentences, sent_scores, summary_sents, result>>

\* lines 62-66
ScoreSentences ==
  /\ pc = "score"
  /\ sent_scores' = SentScores(sentences, word_freq)
  /\ pc' = "select"
  /\ UNCHANGED <<args, text, sentences, word_freq, summary_sents, result>>

\* lines 69-72
SelectTop ==
  /\ pc = "select"
  /\ summary_sents' = TopSentences(sent_scores, n_sentences)
  /\ result' = join(summary_sents')
  /\ pc' = "done"
  /\ UNCHANGED <<args, text, sentences, word_freq, sent_scores>>

\* lines 74-77: the except branch
Fallback ==
  /\ pc = "except"
  /\ sentences' = simple_tokenize(text)
  /\ result' = join(Take(sentences', n_sentences))
  /\ pc' = "done"
  /\ UNCHANGED <<args, text, word_freq, sent_scores, summary_sents>>

Next ==
  \/ Clean
  \/ Tokenize
  \/ Shortcut
  \/ LoadStopwords
  \/ LoadStopwordsRaises
  \/ CountWords
  \/ ScoreSentences
  \/ SelectTop
  \/ Fallback

Spec == Init /\ [][Next]_vars

\* ------------------------------------------------- vocabulary of the claims
\* "The cat sat.", "The cat ran fast.", "Dogs bark loudly at night."
CatFirst == <<"T","h","e"," ","c","a","t"," ","s","a","t",".">>
CatSecond == <<"T","h","e"," ","c","a","t"," ","r","a","n"," ","f","a","s","t",".">>
CatThird == <<"D","o","g","s"," ","b","a","r","k"," ","l","o","u","d","l","y"," ","a","t"," ","n","i","g","h","t",".">>

Returned == pc = "done"
OnShortcut == Returned /\ Len(sentences) <= n_sentences
OnNormal == Returned /\ Len(sentences) > n_sentences /\ stopwords_available
OnFallback == Returned /\ Len(sentences) > n_sentences /\ ~stopwords_available

Min(a, b) == IF a < b THEN a ELSE b

\* p occurs in s as a contiguous substring
IsSubstring(p, s) ==
  \E i \in 1..(Len(s) + 1) :
    /\ i + Len(p) - 1 <= Len(s)
    /\ SubSeq(s, i, i + Len(p) - 1) = p

\* the whitespace-delimited tokens of s, as a set
TokensOf(s) ==
  {SubSeq(s, i, j) : <<i, j>> \in
     {ij \in (DOMAIN s) \X (DOMAIN s) :
        /\ ij[1] <= ij[2]
        /\ \A k \in ij[1]..ij[2] : ~IsSpace(s[k])
        /\ (ij[1] = 1 \/ IsSpace(s[ij[1] - 1]))
        /\ (ij[2] = Len(s) \/ IsSpace(s[ij[2] + 1]))}}

\* the sentence has a token that is a key of the word frequency table
HasKeyToken(s) == \E w \in TokensOf(lower(s)) : DictHas(word_freq, w)

\* the text has a token that is entirely alphanumeric and not a stopword
HasQualifyingWord(t) ==
  \E w \in TokensOf(lower(t)) :
    /\ \A i \in DOMAIN w : IsAlnumChar(w[i])
    /\ w \notin StopWords

\* the position at which the sentence text s first occurs in the article
FirstAt(s) == CHOOSE i \in DOMAIN sentences :
                sentences[i] = s /\ \A j \in 1..(i - 1) : sentences[j] # s

Occurrences(s) == Cardinality({i \in DOMAIN sentences : sentences[i] = s})

ScoreOf(s) == DictGet(sent_scores, s, 0)

\* s is sorted in front of t: higher score, or equal score and scored earlier
SortsBefore(s, t) ==
  \/ ScoreOf(s) > ScoreOf(t)
  \/ ScoreOf(s) = ScoreOf(t) /\ FirstAt(s) < FirstAt(t)

RECURSIVE SumFreq(_)
\* the sum of the frequencies of the words that are keys of word_freq
SumFreq(words) ==
  IF words = <<>> THEN 0
  ELSE DictGet(word_freq, Head(words), 0) + SumFreq(Tail(words))

\* word_freq as a set of <<word, count>> pairs
FreqPairs == {<<word_freq[i].key, word_freq[i].val>> : i \in DOMAIN word_freq}

\* ------------------------------------------------------------------ claims

\* C1: when segmenting the cleaned text gives at most n sentences,
\* summarize_text returns clean_text(text) itself, not the sentences joined
\* again; the empty text gives the empty string.
C1_ShortcutReturnsCleanText ==
  (Returned /\ Len(simple_tokenize(clean_text(input))) <= n_sentences)
    => /\ result = clean_text(input)
       /\ (input = <<>> => result = <<>>)

\* C1 witness: the shortcut returned a cleaned text that differs from the
\* re-join of its sentences.
C1_Witness ==
  /\ Returned
  /\ Len(simple_tokenize(clean_text(input))) <= n_sentences
  /\ result = clean_text(input)
  /\ result # join(sentences)

\* C2 (as stated): with the stopwords unavailable and more than n sentences,
\* the result is the first n sentences of segment(raw input) joined by
\* single spaces.
C2_FallbackOfRawInput ==
  (Returned /\ ~stopwords_available /\ Len(simple_tokenize(input)) > n_sentences)
    => result = join(Take(simple_tokenize(input), n_sentences))

\* the pieces that the return statement taken joined (or returned whole)
ReturnedPieces ==
  IF OnShortcut THEN <<result>>
  ELSE IF OnNormal THEN summary_sents
  ELSE Take(sentences, n_sentences)

\* C3 (as stated): on every path the result is the single-space join of
\* pieces that are contiguous substrings of clean_text(raw input).
C3_PiecesFromCleanText ==
  Returned =>
    /\ result = join(ReturnedPieces)
    /\ \A i \in DOMAIN ReturnedPieces :
         IsSubstring(ReturnedPieces[i], clean_text(input))

\* C4 (as stated): cleaning a cleaned text changes nothing.
C4_CleanIdempotent ==
  pc # "clean" => clean_text(text) = text

CatCall == input = CatText /\ n_sentences = 1 /\ stopwords_available /\ Returned

\* C6 (as stated): on the cat example fast and night are counted, the second
\* sentence scores 4, strictly the highest, and is returned.
C6_CatExampleAsStated ==
  CatCall =>
    /\ {<<<<"c","a","t">>, 2>>, <<<<"r","a","n">>, 1>>, <<<<"f","a","s","t">>, 1>>,
        <<<<"d","o","g","s">>, 1>>, <<<<"b","a","r","k">>, 1>>,
        <<<<"l","o","u","d","l","y">>, 1>>, <<<<"n","i","g","h","t">>, 1>>}
         \subseteq FreqPairs
    /\ ScoreOf(CatSecond) = 4
    /\ \A s \in DictKeys(sent_scores) \ {CatSecond} : ScoreOf(s) < 4
    /\ result = CatSecond

\* C6 (amended): on the cat example the word frequency table is exactly
\* cat = 2 and ran, dogs, bark, loudly = 1 (sat., fast. and night. carry a
\* full stop and are not counted); "The cat ran fast." scores 3, tied with
\* "Dogs bark loudly at night." and ahead of "The cat sat." (2); it was
\* scored first and is returned.
C6_CatExample ==
  CatCall =>
    /\ FreqPairs = {<<<<"c","a","t">>, 2>>, <<<<"r","a","n">>, 1>>,
                    <<<<"d","o","g","s">>, 1>>, <<<<"b","a","r","k">>, 1>>,
                    <<<<"l","o","u","d","l","y">>, 1>>}
    /\ DictKeys(sent_scores) = {CatFirst, CatSecond, CatThird}
    /\ ScoreOf(CatFirst) = 2
    /\ ScoreOf(CatSecond) = 3
    /\ ScoreOf(CatThird) = 3
    /\ result = CatSecond

\* C6 witness: the call on the cat example returned.
C6_Witness == CatCall /\ sentences = <<CatFirst, CatSecond, CatThird>> /\ result = CatSecond

\* C7: on the normal path the result is the single-space join of the first
\* n entries of the score table in score-descending order, equal scores in
\* the order in which the sentences were first scored.
C7_TopByScoreStable ==
  OnNormal =>
    /\ result = join(summary_sents)
    /\ Len(summary_sents) = Min(n_sentences, Cardinality(DictKeys(sent_scores)))
    /\ \A i \in DOMAIN summary_sents : summary_sents[i] \in DictKeys(sent_scores)
    /\ \A i, j \in DOMAIN summary_sents :
         i < j => SortsBefore(summary_sents[i], summary_sents[j])
    /\ \A s \in DictKeys(sent_scores) \ Range(summary_sents) :
         \A i \in DOMAIN summary_sents : SortsBefore(summary_sents[i], s)

\* C7 witness: a summary of two sentences in which the later sentence of the
\* article comes first.
C7_Witness ==
  /\ OnNormal
  /\ Len(summary_sents) = 2
  /\ FirstAt(summary_sents[1]) > FirstAt(summary_sents[2])
  /\ result = join(summary_sents)

\* C8 (as stated): a cleaned text has no two consecutive whitespace
\* characters, no leading or trailing whitespace, and only word characters,
\* spaces and . ! ?
C8_CleanTextInvariant ==
  pc # "clean" =>
    /\ \A i \in 1..(Len(text) - 1) : ~(IsSpace(text[i]) /\ IsSpace(text[i + 1]))
    /\ text # <<>> => ~IsSpace(text[1]) /\ ~IsSpace(text[Len(text)])
    /\ \A i \in DOMAIN text : IsWordChar(text[i]) \/ text[i] = " " \/ text[i] \in Terminators

\* C9: on the normal path a sentence with no token in the word frequency
\* table has no entry in the score table and is not in the summary.
C9_UnscoredNeverSelected ==
  OnNormal =>
    \A i \in DOMAIN sentences :
      ~HasKeyToken(sentences[i]) =>
        /\ ~DictHas(sent_scores, sentences[i])
        /\ sentences[i] \notin Range(summary_sents)

\* C9 witness: a sentence without key token was left out although the
\* summary has fewer than n sentences.
C9_Witness ==
  /\ OnNormal
  /\ \E i \in DOMAIN sentences : ~HasKeyToken(sentences[i])
  /\ summary_sents # <<>>
  /\ Len(summary_sents) < n_sentences

\* C10: the score table has one entry per sentence text, its score summed
\* over all occurrences of the text; the summary has no text twice and has
\* exactly min(n, number of distinct texts with a key token) sentences.
C10_KeyedBySentenceText ==
  OnNormal =>
    /\ \A i, j \in DOMAIN sent_scores :
         sent_scores[i].key = sent_scores[j].key => i = j
    /\ \A i \in DOMAIN sent_scores :
         sent_scores[i].val =
           Occurrences(sent_scores[i].key) * SumFreq(split(lower(sent_scores[i].key)))
    /\ \A i, j \in DOMAIN summary_sents :
         summary_sents[i] = summary_sents[j] => i = j
    /\ Len(summary_sents) =
         Min(n_sentences, Cardinality({s \in Range(sentences) : HasKeyToken(s)}))

\* C10 witness: a sentence text that occurs more than once was scored and the
\* summary has fewer than n sentences.
C10_Witness ==
  /\ OnNormal
  /\ \E i \in DOMAIN sent_scores : Occurrences(sent_scores[i].key) > 1
  /\ Len(summary_sents) < n_sentences

====
